---- MODULE Spec2Model ----
(***************************************************************************)
(* A model of jsonrpcserver's response module (jsonrpcserver/response.py)  *)
(* and of the request handling that produces responses.                    *)
(*                                                                         *)
(* Python values are tagged records [t, v]; a dict is a sequence of        *)
(* [k, v] items in insertion order; a serialized body (a Python str) is    *)
(* the sequence of JSON tokens json.dumps writes, '' being <<>>.           *)
(***************************************************************************)
EXTENDS Integers, Sequences, FiniteSets, TLC

\* Longest positional params list of a raw request.
MaxParams == 2
\* Longest sequence of property reads on one response object.
MaxReads == 3

VARIABLES
    pc,         \* position of the run
    config,     \* process-wide flags, set once at startup
    raw,        \* the raw request handed to Request(...)
    request,    \* the Request object
    outcome,    \* what invoking the procedure produced
    response,   \* the response object (self)
    ctor,       \* the arguments the response was constructed with
    raised,     \* the exception that escaped the last operation, "" if none
    reads,      \* the properties read on the response so far, in order
    view,       \* what the last property read returned
    sort_in,    \* the dict handed to _sort_response
    sort_arg,   \* that same dict object after the call
    sort_ret,   \* what _sort_response returned
    sent        \* the body handed to the transport

vars == <<pc, config, raw, request, outcome, response, ctor, raised, reads,
          view, sort_in, sort_arg, sort_ret, sent>>

----------------------------------------------------------------------------
\* Python values

None == [t |-> "none", v |-> 0]
PyInt(n) == [t |-> "int", v |-> n]
PyStr(s) == [t |-> "str", v |-> s]
PyDict(items) == [t |-> "dict", v |-> items]
Item(key, value) == [k |-> key, v |-> value]

\* bool(x): None, 0, '' and {} are false.
Truthy(x) ==
    CASE x.t = "none" -> FALSE
      [] x.t = "int" -> x.v # 0
      [] x.t = "str" -> x.v # ""
      [] x.t = "dict" -> Len(x.v) > 0

\* `key in d`
HasKey(d, key) == \E i \in 1..Len(d.v) : d.v[i].k = key

\* d[key]
Get(d, key) == d.v[CHOOSE i \in 1..Len(d.v) : d.v[i].k = key].v

\* d[key] = value: an existing key keeps its position, a new one is appended.
DictSet(d, key, value) ==
    IF HasKey(d, key)
    THEN PyDict([i \in 1..Len(d.v) |->
                 IF d.v[i].k = key THEN Item(key, value) ELSE d.v[i]])
    ELSE PyDict(Append(d.v, Item(key, value)))

\* list(d): the keys in iteration order
Keys(d) == [i \in 1..Len(d.v) |-> d.v[i].k]

----------------------------------------------------------------------------
\* _sort_response

root_order == <<"jsonrpc", "result", "error", "id">>
error_order == <<"code", "message", "data">>

\* order.index(key), 0-based; -1 stands for the ValueError of a missing key.
Index(order, key) ==
    IF \E i \in 1..Len(order) : order[i] = key
    THEN (CHOOSE i \in 1..Len(order) : order[i] = key) - 1
    ELSE -1

\* One step of sorted(): the item goes after every item whose key is not
\* greater (the sort is stable).
InsertByIndex(items, item, order) ==
    LET n == Cardinality({i \in 1..Len(items) :
                 Index(order, items[i].k) <= Index(order, item.k)})
    IN  SubSeq(items, 1, n) \o <<item>> \o SubSeq(items, n + 1, Len(items))

RECURSIVE SortedByIndex(_, _)
\* sorted(items, key=lambda k: order.index(k[0]))
SortedByIndex(items, order) ==
    IF items = <<>> THEN <<>>
    ELSE InsertByIndex(SortedByIndex(SubSeq(items, 1, Len(items) - 1), order),
                       items[Len(items)], order)

\* A _sort_response that leaves the error object as it came.
sort_response_arg_unsorted(resp) == resp

\* The argument after `response['error'] = OrderedDict(sorted(...))`.
sort_response_arg(resp) ==
    IF HasKey(resp, "error")
    THEN DictSet(resp, "error",
                 PyDict(SortedByIndex(Get(resp, "error").v, error_order)))
    ELSE resp

sort_response(resp) ==
    PyDict(SortedByIndex(sort_response_arg(resp).v, root_order))

\* list.index raises ValueError for a key that is in neither order list.
sort_response_raises(resp) ==
    \/ /\ HasKey(resp, "error")
       /\ \E i \in 1..Len(Get(resp, "error").v) :
              Index(error_order, Get(resp, "error").v[i].k) = -1
    \/ \E i \in 1..Len(resp.v) : Index(root_order, resp.v[i].k) = -1

----------------------------------------------------------------------------
\* json.dumps with the default separators, as a token sequence

Quote(s) == "\"" \o s \o "\""

RECURSIVE dumps(_)
RECURSIVE dumps_items(_)
dumps_items(items) ==
    IF items = <<>> THEN <<>>
    ELSE LET head == <<Quote(items[1].k), ": ">> \o dumps(items[1].v)
         IN  IF Len(items) = 1 THEN head
             ELSE head \o <<", ">> \o dumps_items(Tail(items))

dumps(x) ==
    CASE x.t = "none" -> <<"null">>
      [] x.t = "int" -> <<ToString(x.v)>>
      [] x.t = "str" -> <<Quote(x.v)>>
      [] x.t = "dict" -> <<"{">> \o dumps_items(x.v) \o <<"}">>

----------------------------------------------------------------------------
\* The response classes

NoResponse == [cls |-> "none"]

\* SuccessResponse.__init__: [raised, self]
SuccessResponse_init(request_id, result) ==
    IF Truthy(result) /\ ~Truthy(request_id)
    THEN [raised |-> "ValueError", self |-> NoResponse]
    ELSE [raised |-> "",
          self |-> [cls |-> "SuccessResponse",
                    http_status |-> IF Truthy(request_id) THEN 200 ELSE 204,
                    request_id |-> request_id,
                    result |-> result]]

\* ErrorResponse.__init__
ErrorResponse_init(http_status, request_id, code, message, data) ==
    [cls |-> "ErrorResponse", http_status |-> http_status,
     request_id |-> request_id, code |-> code, message |-> message,
     data |-> data]

\* A response that signals "no reply": it has no mapping.
NotificationResponse_init ==
    [cls |-> "NotificationResponse", http_status |-> 204, request_id |-> None]

NotificationResponse_json(self) == None

\* A SuccessResponse whose falsy request_id gives an empty mapping.
SuccessResponse_json_empty_dict(self) ==
    IF Truthy(self.request_id)
    THEN PyDict(<<Item("jsonrpc", PyStr("2.0")), Item("result", self.result),
                  Item("id", self.request_id)>>)
    ELSE PyDict(<<>>)

\* SuccessResponse.json; falling off the end returns None.
SuccessResponse_json(self) ==
    IF Truthy(self.request_id)
    THEN PyDict(<<Item("jsonrpc", PyStr("2.0")), Item("result", self.result),
                  Item("id", self.request_id)>>)
    ELSE None

\* An ErrorResponse.json that carries data.
ErrorResponse_json_with_data(self) ==
    PyDict(<<Item("jsonrpc", PyStr("2.0")),
             Item("error", PyDict(<<Item("code", self.code),
                                    Item("message", self.message),
                                    Item("data", self.data)>>)),
             Item("id", self.request_id)>>)

\* An ErrorResponse.json that leaves a None id out.
ErrorResponse_json_no_null_id(self) ==
    IF self.request_id = None
    THEN PyDict(<<Item("jsonrpc", PyStr("2.0")),
                  Item("error", PyDict(<<Item("code", self.code),
                                         Item("message", self.message)>>))>>)
    ELSE PyDict(<<Item("jsonrpc", PyStr("2.0")),
                  Item("error", PyDict(<<Item("code", self.code),
                                         Item("message", self.message)>>)),
                  Item("id", self.request_id)>>)

\* An ErrorResponse.json that also carries a result member.
ErrorResponse_json_with_result(self) ==
    PyDict(<<Item("jsonrpc", PyStr("2.0")), Item("result", None),
             Item("error", PyDict(<<Item("code", self.code),
                                    Item("message", self.message)>>)),
             Item("id", self.request_id)>>)

\* ErrorResponse.json: a new dict on every read.
ErrorResponse_json(self) ==
    PyDict(<<Item("jsonrpc", PyStr("2.0")),
             Item("error", PyDict(<<Item("code", self.code),
                                    Item("message", self.message)>>)),
             Item("id", self.request_id)>>)

\* self.json, by the class of self
Response_json(self) ==
    CASE self.cls = "SuccessResponse" -> SuccessResponse_json(self)
      [] self.cls = "ErrorResponse" -> ErrorResponse_json(self)
      [] self.cls = "NotificationResponse" -> NotificationResponse_json(self)

\* An ErrorResponse.json_debug that sets data on a dict it then drops.
ErrorResponse_json_debug_lost(self) == ErrorResponse_json(self)

\* ErrorResponse.json_debug: r = self.json; r['error']['data'] = self.data
ErrorResponse_json_debug(self) ==
    LET r == ErrorResponse_json(self)
    IN  DictSet(r, "error", DictSet(Get(r, "error"), "data", self.data))

\* self.json_debug
Response_json_debug(self) ==
    IF self.cls = "ErrorResponse" THEN ErrorResponse_json_debug(self)
    ELSE Response_json(self)

\* A body that serializes whatever json returns.
Response_body_always(self) == dumps(Response_json(self))

\* A body that is empty for every falsy request_id.
Response_body_guard_id(self) ==
    IF Truthy(self.request_id) /\ Truthy(Response_json(self))
    THEN dumps(sort_response(Response_json(self)))
    ELSE <<>>

\* _Response.body
Response_body(self) ==
    IF Truthy(Response_json(self))
    THEN dumps(sort_response(Response_json(self)))
    ELSE <<>>

ErrorResponse_body_debug(self) ==
    dumps(sort_response(ErrorResponse_json_debug(self)))

\* self.body_debug
Response_body_debug(self) ==
    IF self.cls = "ErrorResponse" THEN ErrorResponse_body_debug(self)
    ELSE Response_body(self)

----------------------------------------------------------------------------
\* Requests, configuration and the procedure source

Absent == [t |-> "absent", v |-> 0]
PyList(elems) == [t |-> "list", v |-> elems]
NoRequest == [cls |-> "none"]
NoOutcome == [kind |-> "none"]

default_config ==
    [debug |-> FALSE, convert_camel_case |-> FALSE,
     notification_errors |-> FALSE]

\* The error taxonomy: JSON-RPC code, message and HTTP status.
InvalidRequest ==
    [http_status |-> 400, code |-> PyInt(-32600),
     message |-> PyStr("Invalid Request")]
MethodNotFound ==
    [http_status |-> 404, code |-> PyInt(-32601),
     message |-> PyStr("Method not found")]
InvalidParams ==
    [http_status |-> 400, code |-> PyInt(-32602),
     message |-> PyStr("Invalid params")]
ServerError ==
    [http_status |-> 500, code |-> PyInt(-32000),
     message |-> PyStr("Server error")]

\* camelCase to snake_case, over the names the model uses.
convert_camel_case(name) ==
    CASE name = "fooMethod" -> "foo_method"
      [] name = "fooParam" -> "foo_param"
      [] OTHER -> name

RECURSIVE convert_keys(_)
\* The keys of a mapping converted, as a dict comprehension builds it.
convert_keys(items) ==
    IF items = <<>> THEN PyDict(<<>>)
    ELSE DictSet(convert_keys(SubSeq(items, 1, Len(items) - 1)),
                 convert_camel_case(items[Len(items)].k), items[Len(items)].v)

\* The shape validation of a raw request.
is_valid(r) ==
    /\ r.jsonrpc = PyStr("2.0")
    /\ r.method.t = "str"
    /\ r.params.t \in {"absent", "list", "dict"}
    /\ r.id.t \in {"absent", "none", "int", "str"}

\* An args binding that also takes the values of a mapping.
Request_args_merged(r) ==
    CASE r.params.t = "list" -> r.params.v
      [] r.params.t = "dict" -> [i \in 1..Len(r.params.v) |-> r.params.v[i].v]
      [] OTHER -> <<>>

\* Request.args: a sequence params in order, else empty.
Request_args(r) == IF r.params.t = "list" THEN r.params.v ELSE <<>>

\* Request.kwargs: a mapping params, else empty.
Request_kwargs(r, cfg) ==
    IF r.params.t = "dict"
    THEN IF cfg.convert_camel_case THEN convert_keys(r.params.v) ELSE r.params
    ELSE PyDict(<<>>)

\* Request.__init__ on a raw request: the Request object.
Request_init(r, cfg) ==
    IF is_valid(r)
    THEN [cls |-> "Request",
          method_name |-> IF cfg.convert_camel_case
                          THEN convert_camel_case(r.method.v) ELSE r.method.v,
          args |-> Request_args(r),
          kwargs |-> Request_kwargs(r, cfg),
          request_id |-> IF r.id.t = "absent" THEN None ELSE r.id,
          response |-> NoResponse]
    ELSE [cls |-> "Request", method_name |-> "", args |-> <<>>,
          kwargs |-> PyDict(<<>>), request_id |-> None,
          response |-> ErrorResponse_init(InvalidRequest.http_status, None,
                           InvalidRequest.code, InvalidRequest.message, None)]

is_notification(req) == req.request_id = None

\* The procedure source: name -> parameter names.
methods ==
    [foo |-> <<>>, double |-> <<"x">>, foo_method |-> <<"foo_param">>,
     fail |-> <<>>, div0 |-> <<>>]

\* The arguments bound to the parameters of a procedure, or a mismatch.
binds(params, args, kwargs) ==
    /\ Len(args) + Len(kwargs.v) = Len(params)
    /\ \A i \in 1..Len(kwargs.v) :
           \E j \in Len(args) + 1..Len(params) : params[j] = kwargs.v[i].k

\* The value bound to the only parameter of a one-parameter procedure.
bound1(args, kwargs) == IF Len(args) = 1 THEN args[1] ELSE kwargs.v[1].v

Success(result) == [kind |-> "success", result |-> result]
Failure(err, data) ==
    [kind |-> "failure", http_status |-> err.http_status, code |-> err.code,
     message |-> err.message, data |-> data]

\* Lookup and invocation: the outcome of calling the named procedure.
invoke(req) ==
    IF req.method_name \notin DOMAIN methods
    THEN Failure(MethodNotFound, PyStr(req.method_name))
    ELSE IF ~binds(methods[req.method_name], req.args, req.kwargs)
    THEN Failure(InvalidParams, None)
    ELSE CASE req.method_name = "foo" -> Success(PyStr("bar"))
           [] req.method_name = "double" ->
                  Success(PyInt(2 * bound1(req.args, req.kwargs).v))
           [] req.method_name = "foo_method" ->
                  Success(bound1(req.args, req.kwargs))
           [] req.method_name = "fail" ->
                  Failure(InvalidParams, PyStr("detail"))
           [] req.method_name = "div0" ->
                  Failure(ServerError, PyStr("ZeroDivisionError"))

\* The response for an outcome: [raised, self].
respond(req, out, cfg) ==
    IF out.kind = "failure"
    THEN IF is_notification(req) /\ ~cfg.notification_errors
         THEN [raised |-> "", self |-> NotificationResponse_init]
         ELSE [raised |-> "",
               self |-> ErrorResponse_init(out.http_status, req.request_id,
                                           out.code, out.message, out.data)]
    ELSE IF is_notification(req)
         THEN [raised |-> "", self |-> NotificationResponse_init]
         ELSE SuccessResponse_init(req.request_id, out.result)

----------------------------------------------------------------------------
\* The inputs

\* Sequences of distinct elements of S
Orderings(S) ==
    {q \in UNION {[1..n -> S] : n \in 0..Cardinality(S)} :
        \A i, j \in 1..Len(q) : i # j => q[i] # q[j]}

RootKeys == {"jsonrpc", "result", "error", "id", "extra"}
ErrorKeys == {"code", "message", "data"}

ErrorDicts ==
    {PyDict([i \in 1..Len(q) |->
                Item(q[i], CASE q[i] = "code" -> PyInt(-32601)
                             [] q[i] = "message" -> PyStr("Method not found")
                             [] OTHER -> None)]) :
        q \in Orderings(ErrorKeys)}

\* The dicts handed to _sort_response
ResponseDicts ==
    UNION {{PyDict([i \in 1..Len(q) |->
                Item(q[i], CASE q[i] = "jsonrpc" -> PyStr("2.0")
                             [] q[i] = "result" -> PyStr("bar")
                             [] q[i] = "error" -> e
                             [] q[i] = "id" -> PyInt(1)
                             [] OTHER -> None)]) :
                e \in IF \E i \in 1..Len(q) : q[i] = "error"
                      THEN ErrorDicts ELSE {PyDict(<<>>)}} :
           q \in Orderings(RootKeys)}

Ids == {None, PyInt(0), PyInt(1), PyStr(""), PyStr("abc")}
Results == {None, PyInt(0), PyInt(6), PyStr(""), PyStr("bar")}
Errors == {InvalidRequest, MethodNotFound, InvalidParams, ServerError}
Datas == {None, PyStr("detail")}

ArgValues == {PyInt(0), PyInt(3)}
ParamLists ==
    {PyList(q) : q \in UNION {[1..n -> ArgValues] : n \in 0..MaxParams}}
ParamDicts ==
    {PyDict(<<>>), PyDict(<<Item("x", PyInt(0))>>),
     PyDict(<<Item("x", PyInt(3))>>), PyDict(<<Item("fooParam", PyInt(3))>>),
     PyDict(<<Item("fooParam", PyInt(3)), Item("foo_param", PyInt(0))>>)}

\* The raw requests. An id is absent, a scalar, or (malformed) a list; an
\* explicit null id, which the specification leaves open, is not drawn.
RawRequests ==
    [jsonrpc : {Absent, PyStr("1.0"), PyStr("2.0")},
     method : {Absent, PyInt(5)} \cup
              {PyStr(m) : m \in {"foo", "double", "fooMethod", "fail", "div0",
                                 "baz"}},
     params : {Absent, PyInt(5)} \cup ParamLists \cup ParamDicts,
     id : (Ids \ {None}) \cup {Absent, PyList(<<>>)}]

Configs ==
    [debug : BOOLEAN, convert_camel_case : BOOLEAN,
     notification_errors : BOOLEAN]

NoView == [prop |-> "none", value |-> None]

----------------------------------------------------------------------------
\* The state machine

Init ==
    /\ pc = "start"
    /\ config = default_config
    /\ raw = [cls |-> "none"]
    /\ request = NoRequest
    /\ outcome = NoOutcome
    /\ response = NoResponse
    /\ ctor = NoResponse
    /\ raised = ""
    /\ reads = <<>>
    /\ view = NoView
    /\ sort_in = None
    /\ sort_arg = None
    /\ sort_ret = None
    /\ sent = <<>>

\* The operator sets the configuration flags at startup.
Configure ==
    /\ pc = "start"
    /\ \E c \in Configs : config' = c
    /\ pc' = "configured"
    /\ UNCHANGED <<raw, request, outcome, response, ctor, raised, reads, view,
                   sort_in, sort_arg, sort_ret, sent>>

\* _sort_response(d)
SortResponse ==
    /\ pc = "start"
    /\ \E d \in ResponseDicts :
        /\ sort_in' = d
        /\ IF sort_response_raises(d)
           THEN /\ raised' = "ValueError"
                /\ sort_ret' = None
                /\ sort_arg' =
                       IF /\ HasKey(d, "error")
                          /\ \E i \in 1..Len(Get(d, "error").v) :
                                 Index(error_order, Get(d, "error").v[i].k) = -1
                       THEN d ELSE sort_response_arg(d)
           ELSE /\ raised' = ""
                /\ sort_ret' = sort_response(d)
                /\ sort_arg' = sort_response_arg(d)
    /\ pc' = "sorted"
    /\ UNCHANGED <<config, raw, request, outcome, response, ctor, reads, view,
                   sent>>

\* SuccessResponse(request_id, result)
NewSuccessResponse ==
    /\ pc = "start"
    /\ \E request_id \in Ids, result \in Results :
        LET r == SuccessResponse_init(request_id, result)
        IN  /\ ctor' = [cls |-> "SuccessResponse", request_id |-> request_id,
                        result |-> result]
            /\ raised' = r.raised
            /\ response' = r.self
            /\ pc' = IF r.raised = "" THEN "constructed" ELSE "not_constructed"
    /\ UNCHANGED <<config, raw, request, outcome, reads, view, sort_in,
                   sort_arg, sort_ret, sent>>

\* ErrorResponse(http_status, request_id, code, message, data)
NewErrorResponse ==
    /\ pc = "start"
    /\ \E request_id \in Ids, e \in Errors, data \in Datas :
        /\ response' = ErrorResponse_init(e.http_status, request_id, e.code,
                                          e.message, data)
        /\ ctor' = [cls |-> "ErrorResponse", http_status |-> e.http_status,
                    request_id |-> request_id, code |-> e.code,
                    message |-> e.message, data |-> data]
    /\ pc' = "constructed"
    /\ UNCHANGED <<config, raw, request, outcome, raised, reads, view, sort_in,
                   sort_arg, sort_ret, sent>>

\* A property read: the getter assigns no attribute of self.
Read(prop, value) ==
    /\ pc = "constructed"
    /\ Len(reads) < MaxReads
    /\ reads' = Append(reads, prop)
    /\ view' = [prop |-> prop, value |-> value]
    /\ UNCHANGED <<pc, config, raw, request, outcome, response, ctor, raised,
                   sort_in, sort_arg, sort_ret, sent>>

ReadJson == Read("json", Response_json(response))
ReadJsonDebug == Read("json_debug", Response_json_debug(response))
ReadBody == Read("body", Response_body(response))
ReadBodyDebug == Read("body_debug", Response_body_debug(response))

\* Request(raw)
NewRequest ==
    /\ pc \in {"start", "configured"}
    /\ \E r \in RawRequests :
        /\ raw' = r
        /\ request' = Request_init(r, config)
        /\ pc' = IF is_valid(r) THEN "validated" ELSE "rejected"
    /\ UNCHANGED <<config, outcome, response, ctor, raised, reads, view,
                   sort_in, sort_arg, sort_ret, sent>>

\* request.call(methods) on a request that failed validation
CallRejected ==
    /\ pc = "rejected"
    /\ outcome' = Failure(InvalidRequest, None)
    /\ response' = request.response
    /\ ctor' = request.response
    /\ pc' = "responded"
    /\ UNCHANGED <<config, raw, request, raised, reads, view, sort_in,
                   sort_arg, sort_ret, sent>>

\* request.call(methods) on a valid request
Call ==
    /\ pc = "validated"
    /\ LET out == invoke(request)
           r == respond(request, out, config)
       IN  /\ outcome' = out
           /\ raised' = r.raised
           /\ response' = r.self
           /\ ctor' = r.self
           /\ pc' = IF r.raised = "" THEN "responded" ELSE "failed"
    /\ UNCHANGED <<config, raw, request, reads, view, sort_in, sort_arg,
                   sort_ret, sent>>

\* The body is handed to the transport; debug mode selects body_debug.
Send ==
    /\ pc = "responded"
    /\ sent' = IF config.debug THEN Response_body_debug(response)
               ELSE Response_body(response)
    /\ pc' = "sent"
    /\ UNCHANGED <<config, raw, request, outcome, response, ctor, raised,
                   reads, view, sort_in, sort_arg, sort_ret>>

Next ==
    \/ Configure
    \/ SortResponse
    \/ NewSuccessResponse
    \/ NewErrorResponse
    \/ ReadJson
    \/ ReadJsonDebug
    \/ ReadBody
    \/ ReadBodyDebug
    \/ NewRequest
    \/ CallRejected
    \/ Call
    \/ Send

Spec == Init /\ [][Next]_vars

----------------------------------------------------------------------------
\* Reading a serialized body back

Contains(tokens, sub) ==
    \E i \in 0..Len(tokens) - Len(sub) :
        SubSeq(tokens, i + 1, i + Len(sub)) = sub

RECURSIVE CloseOf(_, _, _)
\* The position of the "}" that closes the object open at position i.
CloseOf(tokens, i, depth) ==
    IF tokens[i] = "}" /\ depth = 1 THEN i
    ELSE CloseOf(tokens, i + 1,
                 IF tokens[i] = "{" THEN depth + 1
                 ELSE IF tokens[i] = "}" THEN depth - 1 ELSE depth)

RECURSIVE MemberKeys(_, _)
\* The keys of an object's members, in order; i is where a member starts.
MemberKeys(tokens, i) ==
    IF tokens[i] = "}" THEN <<>>
    ELSE LET after == IF tokens[i + 2] = "{"
                      THEN CloseOf(tokens, i + 3, 1) + 1 ELSE i + 3
         IN  <<tokens[i]>> \o
             (IF tokens[after] = ", " THEN MemberKeys(tokens, after + 1)
              ELSE <<>>)

\* The member names of the object that starts at position i.
ObjectKeys(tokens, i) == MemberKeys(tokens, i + 1)

\* The member names of the error object of a body.
ErrorObjectKeys(body) ==
    LET i == CHOOSE i \in 1..Len(body) - 2 :
                 /\ body[i] = Quote("error")
                 /\ body[i + 1] = ": "
                 /\ body[i + 2] = "{"
    IN  ObjectKeys(body, i + 2)

Quoted(keys) == [i \in 1..Len(keys) |-> Quote(keys[i])]

\* The keys of order that d has, in the order of order.
Present(order, d) ==
    LET Has(key) == HasKey(d, key) IN SelectSeq(order, Has)

Range(q) == {q[i] : i \in 1..Len(q)}

Dispatched == pc \in {"responded", "sent", "failed"}

----------------------------------------------------------------------------
\* The claims

\* C1 (as stated): every valid request with a non-null id (0 and '' included)
\* gets exactly one response whose body is non-empty and carries that id.
C1_Original ==
    (Dispatched /\ is_valid(raw) /\ raw.id.t \in {"int", "str"}) =>
        /\ raised = ""
        /\ response.cls \in {"SuccessResponse", "ErrorResponse"}
        /\ response.request_id = raw.id
        /\ Response_body(response) # <<>>
        /\ Contains(Response_body(response),
                    <<Quote("id"), ": ">> \o dumps(raw.id))

\* C2: with notification errors off, calling a notification (id absent)
\* yields a NotificationResponse with an empty body, whatever the outcome.
C2_NotificationSuppressed ==
    (Dispatched /\ is_valid(raw) /\ raw.id = Absent
                /\ ~config.notification_errors) =>
        /\ raised = ""
        /\ response.cls = "NotificationResponse"
        /\ Response_body(response) = <<>>
        /\ Response_body_debug(response) = <<>>
        /\ pc = "sent" => sent = <<>>

C2_Witness ==
    /\ pc = "sent"
    /\ raw.id = Absent
    /\ ~config.notification_errors
    /\ outcome.kind = "failure"
    /\ outcome.code = ServerError.code
    /\ response.cls = "NotificationResponse"
    /\ sent = <<>>

ScenarioC_body ==
    <<"{", Quote("jsonrpc"), ": ", Quote("2.0"), ", ", Quote("error"), ": ",
      "{", Quote("code"), ": ", "-32601", ", ", Quote("message"), ": ",
      Quote("Method not found"), "}", ", ", Quote("id"), ": ", "null", "}">>

\* C3: with notification errors on, a notification that fails yields an
\* ErrorResponse with the failure's code and message and a null id; for an
\* unregistered method that is -32601, Method not found.
C3_NotificationErrors ==
    (Dispatched /\ is_valid(raw) /\ raw.id = Absent
                /\ config.notification_errors /\ outcome.kind = "failure") =>
        /\ response.cls = "ErrorResponse"
        /\ response.request_id = None
        /\ response.code = outcome.code
        /\ response.message = outcome.message
        /\ HasKey(Response_json(response), "id")
        /\ Get(Response_json(response), "id") = None
        /\ request.method_name \notin DOMAIN methods =>
               /\ response.code = PyInt(-32601)
               /\ response.message = PyStr("Method not found")
               /\ Response_body(response) = ScenarioC_body

C3_Witness ==
    /\ pc = "responded"
    /\ raw.id = Absent
    /\ raw.method = PyStr("baz")
    /\ config.notification_errors
    /\ response.cls = "ErrorResponse"
    /\ Response_body(response) = ScenarioC_body

\* C4 (as stated): SuccessResponse(request_id, result) raises whenever a
\* result is given without a request_id, and never when a request_id is given.
C4_Original ==
    (pc \in {"constructed", "not_constructed"} /\ ctor.cls = "SuccessResponse") =>
        /\ (ctor.result # None /\ ctor.request_id = None) =>
               raised = "ValueError"
        /\ ctor.request_id # None => raised = ""

\* C5: the body of an ErrorResponse has exactly code and message in its error
\* object, whatever data it was built with; data is in the debug views only.
C5_DataOnlyInDebug ==
    response.cls = "ErrorResponse" =>
        /\ ErrorObjectKeys(Response_body(response)) =
               Quoted(<<"code", "message">>)
        /\ ErrorObjectKeys(Response_body_debug(response)) =
               Quoted(<<"code", "message", "data">>)
        /\ Keys(Get(Response_json(response), "error")) = <<"code", "message">>
        /\ view.prop = "body" =>
               ErrorObjectKeys(view.value) = Quoted(<<"code", "message">>)
        /\ view.prop = "json" =>
               Keys(Get(view.value, "error")) = <<"code", "message">>
        /\ view.prop = "body_debug" =>
               Contains(view.value, <<Quote("data"), ": ">> \o dumps(ctor.data))
        /\ pc = "sent" =>
               (config.debug <=> Quote("data") \in Range(ErrorObjectKeys(sent)))

C5_Witness ==
    /\ pc = "constructed"
    /\ response.cls = "ErrorResponse"
    /\ response.data = PyStr("detail")
    /\ view.prop = "body"
    /\ ErrorObjectKeys(view.value) = Quoted(<<"code", "message">>)

\* C6: for a dict whose keys are all known, _sort_response returns the present
\* top-level keys in the order jsonrpc, result, error, id and the present error
\* keys in the order code, message, data, with every key/value pair kept.
C6_SortedKeys ==
    (pc = "sorted" /\ ~sort_response_raises(sort_in)) =>
        /\ raised = ""
        /\ Keys(sort_ret) = Present(root_order, sort_in)
        /\ ObjectKeys(dumps(sort_ret), 1) = Quoted(Present(root_order, sort_in))
        /\ Len(sort_ret.v) = Len(sort_in.v)
        /\ \A key \in Range(Keys(sort_in)) :
               IF key = "error"
               THEN /\ Keys(Get(sort_ret, key)) =
                           Present(error_order, Get(sort_in, key))
                    /\ Range(Get(sort_ret, key).v) = Range(Get(sort_in, key).v)
                    /\ ErrorObjectKeys(dumps(sort_ret)) =
                           Quoted(Present(error_order, Get(sort_in, key)))
               ELSE Get(sort_ret, key) = Get(sort_in, key)

C6_Witness ==
    /\ pc = "sorted"
    /\ Keys(sort_in) = <<"id", "error", "result", "jsonrpc">>
    /\ Keys(Get(sort_in, "error")) = <<"data", "message", "code">>
    /\ Keys(sort_ret) = <<"jsonrpc", "result", "error", "id">>
    /\ Keys(Get(sort_ret, "error")) = <<"code", "message", "data">>

ResultBearing(j) == j.t = "dict" /\ HasKey(j, "result") /\ ~HasKey(j, "error")
ErrorBearing(j) == j.t = "dict" /\ HasKey(j, "error") /\ ~HasKey(j, "result")
EmptyResponse(j, body) == j = None /\ body = <<>>

\* C7: every response object is in exactly one of the states result-bearing,
\* error-bearing and empty.
C7_ExactlyOneState ==
    response # NoResponse =>
        LET j == Response_json(response)
            body == Response_body(response)
        IN  Cardinality({n \in 1..3 :
                CASE n = 1 -> ResultBearing(j)
                  [] n = 2 -> ErrorBearing(j)
                  [] n = 3 -> EmptyResponse(j, body)}) = 1

C7_Witness ==
    /\ pc = "constructed"
    /\ response.cls = "SuccessResponse"
    /\ response.request_id = PyInt(0)
    /\ EmptyResponse(Response_json(response), Response_body(response))

\* C8: a raw request that fails validation yields an ErrorResponse with code
\* -32600 and a null id, whose body is non-empty and has "id": null; it is not
\* suppressed as a notification.
C8_InvalidRequest ==
    (pc \in {"rejected", "responded", "sent"} /\ ~is_valid(raw)) =>
        LET r == request.response
        IN  /\ r.cls = "ErrorResponse"
            /\ r.code = PyInt(-32600)
            /\ r.message = PyStr("Invalid Request")
            /\ r.request_id = None
            /\ Response_body(r) # <<>>
            /\ Contains(Response_body(r), <<Quote("id"), ": ", "null">>)
            /\ pc \in {"responded", "sent"} => response = r
            /\ pc = "sent" => Contains(sent, <<Quote("id"), ": ", "null">>)

C8_Witness ==
    /\ pc = "sent"
    /\ raw.method = Absent
    /\ raw.jsonrpc = PyStr("2.0")
    /\ raw.id = PyInt(1)
    /\ response.cls = "ErrorResponse"
    /\ Contains(sent, <<Quote("id"), ": ", "null">>)

\* C9: for a valid request, sequence params become args in order with kwargs
\* empty, mapping params become kwargs with args empty, and absent params
\* leave both empty, as an empty sequence does.
C9_ArgsKwargsExclusive ==
    (pc \in {"validated", "responded", "sent", "failed"} /\ is_valid(raw)) =>
        /\ request.args = <<>> \/ request.kwargs.v = <<>>
        /\ raw.params.t = "list" =>
               request.args = raw.params.v /\ request.kwargs = PyDict(<<>>)
        /\ raw.params.t = "dict" =>
               /\ request.args = <<>>
               /\ ~config.convert_camel_case => request.kwargs = raw.params
               /\ Range(Keys(request.kwargs)) =
                      {IF config.convert_camel_case
                       THEN convert_camel_case(key) ELSE key :
                           key \in Range(Keys(raw.params))}
        /\ raw.params.t = "absent" =>
               /\ request.args = <<>> /\ request.kwargs = PyDict(<<>>)
               /\ LET e == Request_init([raw EXCEPT !.params = PyList(<<>>)],
                                        config)
                  IN  e.args = request.args /\ e.kwargs = request.kwargs

C9_Witness ==
    /\ pc = "validated"
    /\ raw.params = PyDict(<<Item("x", PyInt(3))>>)
    /\ request.args = <<>>
    /\ request.kwargs = PyDict(<<Item("x", PyInt(3))>>)

\* C10: after any sequence of reads of json, json_debug, body and body_debug,
\* an ErrorResponse has the code, message, data and request_id it was built
\* with, json and body omit data, and body_debug includes it.
C10_ReadsLeaveResponse ==
    (pc = "constructed" /\ response.cls = "ErrorResponse") =>
        /\ response = ctor
        /\ ~HasKey(Get(Response_json(response), "error"), "data")
        /\ Quote("data") \notin Range(ErrorObjectKeys(Response_body(response)))
        /\ Contains(Response_body_debug(response),
                    <<Quote("data"), ": ">> \o dumps(ctor.data))
        /\ view.prop = "json" =>
               ~HasKey(Get(view.value, "error"), "data")
        /\ view.prop = "json_debug" =>
               Get(Get(view.value, "error"), "data") = ctor.data

C10_Witness ==
    /\ pc = "constructed"
    /\ response.cls = "ErrorResponse"
    /\ ctor.data = PyStr("detail")
    /\ reads = <<"json_debug", "body_debug", "json">>
    /\ ~HasKey(Get(view.value, "error"), "data")

====
